---- MODULE Spec2Model ----
(***************************************************************************)
(* Model of the client-side metrics derivation of the USSD analytics       *)
(* dashboard: calculateMetrics (TransactionVolumeChart.tsx),               *)
(* calculateServiceStats / generateRevenueInsights (revenue trends view),  *)
(* the derivations of the peak-hours heatmap view, and the fetch handling  *)
(* of the volume, revenue and success-rate gauge views.                    *)
(*                                                                         *)
(* JavaScript numbers are modelled as exact rationals extended with NaN    *)
(* and the two infinities, so that a division by zero produces what the    *)
(* program produces.  A number is a record [k, n, d]: k = "fin" with the   *)
(* fraction n/d in lowest terms (d > 0), k = "nan", or k = "inf" with the  *)
(* sign in n.                                                              *)
(***************************************************************************)
EXTENDS Integers, Sequences, FiniteSets, TLC

VARIABLES
    data,           \* ChartDataPoint[] handed to calculateMetrics
    metrics,        \* SummaryMetrics returned by calculateMetrics
    mpc,            \* "input" before the call, "done" after it
    revenueData,    \* RevenueDataPoint[] held by USSDRevenueTrends
    serviceRevenues,\* result of calculateServiceStats(revenueData)
    insights,       \* result of generateRevenueInsights(revenueData, serviceRevenues)
    rpc,            \* "input" -> "stats" -> "done" (the two useMemo steps)
    heatmapData,    \* HeatmapCell[] held by USSDPeakHoursHeatmap
    hourlyData,     \* HourlyData[] set by the [heatmapData] effect
    dayStats,       \* DayStats[] set by the [heatmapData] effect
    hLoading,       \* the loading flag of the heatmap view
    hInsights,      \* useMemo(generateDynamicInsights(heatmapData))
    hRecommendations, \* useMemo(generateDynamicRecommendations(heatmapData))
    hResult,        \* what api.getPeakHours() settled with
    hpc,            \* "fetching" -> "render" -> "effect" -> "settled"
    mounted,        \* the fetching view that is mounted, "none" when none is
    timeRange,      \* timeRange of the volume view / of the revenue view
    selectedService,\* selectedService of the volume view
    selectedPeriod, \* selectedPeriod of the gauge
    isLive,         \* isLive of the gauge
    timers,         \* the intervals set by the gauge and not cleared
    inflight,       \* api calls that have not settled yet
    fetches,        \* number of api calls made so far
    chartData,      \* chartData of the volume view
    summaryMetrics, \* summaryMetrics of the volume view
    crashed,        \* a render of the volume view threw
    loading,        \* loading of the revenue view
    gMetrics,       \* metrics of the gauge
    lastDone,       \* history: the api call that settled last
    path,           \* path argument of a call of api.request
    http,           \* what fetch and the backend answer to that call
    outcome,        \* what the call of api.request settles with
    demoData,       \* data of USSDUserDemographics
    demoLoading,    \* loading of USSDUserDemographics
    demoResult,     \* what api.getDemographics() settled with
    westOfUTC       \* the browser's time zone is behind UTC

metricsVars == <<data, metrics, mpc>>
revenueVars == <<revenueData, serviceRevenues, insights, rpc>>
heatmapVars ==
    <<heatmapData, hourlyData, dayStats, hLoading, hInsights, hRecommendations, hResult, hpc>>
viewVars ==
    <<mounted, timeRange, selectedService, selectedPeriod, isLive, timers, inflight, fetches,
      chartData, summaryMetrics, crashed, loading, gMetrics, lastDone>>
requestVars == <<path, http, outcome>>
demographicsVars == <<demoData, demoLoading, demoResult>>
restVars == <<requestVars, demographicsVars, westOfUTC>>
vars == <<metricsVars, revenueVars, heatmapVars, viewVars, restVars>>
notMetricsVars == <<revenueVars, heatmapVars, viewVars, restVars>>
notRevenueVars == <<metricsVars, heatmapVars, viewVars, restVars>>
notHeatmapVars == <<metricsVars, revenueVars, viewVars, restVars>>
notViewVars == <<metricsVars, revenueVars, heatmapVars, restVars>>
notRequestVars ==
    <<metricsVars, revenueVars, heatmapVars, viewVars, demographicsVars, westOfUTC>>
notDemographicsVars ==
    <<metricsVars, revenueVars, heatmapVars, viewVars, requestVars, westOfUTC>>

----------------------------------------------------------------------------
(* Bounds of the checked input space *)

MaxLen == 8         \* longest ChartDataPoint series with plain records
MaxTotal == 1       \* largest "total" of a record of such a series
MaxRichLen == 2     \* longest series whose revenue / successRate vary too
MaxRevLen == 1      \* longest revenue series with free category values
MaxRev == 1         \* largest per-category value of such a series
MaxTrendLen == 4    \* longest revenue series whose first and last records vary

MaxCells == 3       \* longest HeatmapCell list
MaxCellValue == 1   \* largest value of a cell of such a list

MaxFetches == 3     \* api calls made by a view in a behaviour
MaxPayload == 2     \* the payloads of a view's endpoint are numbered 0..MaxPayload

----------------------------------------------------------------------------
(* JavaScript values that are not numbers *)

\* the value of a missing property or array element
Undefined == [undefined |-> TRUE]

\* what api.request settles with: the payload array, null, or a rejection
ApiPayload(rows) == [kind |-> "payload", rows |-> rows]
ApiNull == [kind |-> "null", rows |-> <<>>]
ApiReject == [kind |-> "reject", rows |-> <<>>]
ApiPending == [kind |-> "pending", rows |-> <<>>]

\* no call of api.request is followed
RequestIdle ==
    /\ path = ""
    /\ http = [fetch |-> "none"]
    /\ outcome = ApiPending

\* the demographics view as it is before it is mounted
DemographicsIdle ==
    /\ demoData = ApiNull
    /\ demoLoading = TRUE
    /\ demoResult = [kind |-> "unmounted", rows |-> <<>>]

\* the browser is at or ahead of UTC
EnvironmentIdle == westOfUTC = FALSE

RestIdle == RequestIdle /\ DemographicsIdle /\ EnvironmentIdle

\* the heatmap view as it is before it is mounted in a checked behaviour
HeatmapIdle ==
    /\ heatmapData = <<>>
    /\ hourlyData = <<>>
    /\ dayStats = <<>>
    /\ hLoading = TRUE
    /\ hInsights = <<>>
    /\ hRecommendations = <<>>
    /\ hResult = ApiPending
    /\ hpc = "idle"

----------------------------------------------------------------------------
(* JavaScript number arithmetic *)

Abs(i) == IF i < 0 THEN -i ELSE i
Sign(i) == IF i < 0 THEN -1 ELSE IF i > 0 THEN 1 ELSE 0
Min(a, b) == IF a < b THEN a ELSE b
Max(a, b) == IF a > b THEN a ELSE b

RECURSIVE GCD(_, _)
GCD(a, b) == IF b = 0 THEN a ELSE GCD(b, a % b)

NaN == [k |-> "nan", n |-> 0, d |-> 1]
Inf(s) == [k |-> "inf", n |-> s, d |-> 1]

\* the finite number n/d (d # 0) in lowest terms
Rat(n, d) ==
    LET g == GCD(Abs(n), Abs(d))
        s == IF d < 0 THEN -1 ELSE 1
    IN [k |-> "fin", n |-> (s * n) \div g, d |-> (s * d) \div g]

Num(i) == [k |-> "fin", n |-> i, d |-> 1]

IsFinite(x) == x.k = "fin"
IsNaN(x) == x.k = "nan"

JsNeg(x) == IF x.k = "nan" THEN NaN ELSE [x EXCEPT !.n = -x.n]

\* a + b
JsAdd(a, b) ==
    IF a.k = "nan" \/ b.k = "nan" THEN NaN
    ELSE IF a.k = "inf" /\ b.k = "inf" THEN (IF a.n = b.n THEN a ELSE NaN)
    ELSE IF a.k = "inf" THEN a
    ELSE IF b.k = "inf" THEN b
    ELSE Rat(a.n * b.d + b.n * a.d, a.d * b.d)

\* a - b
JsSub(a, b) == JsAdd(a, JsNeg(b))

\* a * b
JsMul(a, b) ==
    IF a.k = "nan" \/ b.k = "nan" THEN NaN
    ELSE IF a.k = "inf" \/ b.k = "inf"
         THEN (IF a.n = 0 \/ b.n = 0 THEN NaN ELSE Inf(Sign(a.n) * Sign(b.n)))
    ELSE Rat(a.n * b.n, a.d * b.d)

\* a / b : 0/0 is NaN, x/0 is an infinity with the sign of x
JsDiv(a, b) ==
    IF a.k = "nan" \/ b.k = "nan" THEN NaN
    ELSE IF a.k = "inf" /\ b.k = "inf" THEN NaN
    ELSE IF a.k = "inf" THEN Inf(IF b.n < 0 THEN -a.n ELSE a.n)
    ELSE IF b.k = "inf" THEN Num(0)
    ELSE IF b.n = 0 THEN (IF a.n = 0 THEN NaN ELSE Inf(Sign(a.n)))
    ELSE Rat(a.n * b.d, a.d * b.n)

\* a > b : false as soon as one side is NaN
JsGt(a, b) ==
    IF a.k = "nan" \/ b.k = "nan" THEN FALSE
    ELSE IF a.k = "inf" THEN a.n = 1 /\ b # a
    ELSE IF b.k = "inf" THEN b.n = -1
    ELSE a.n * b.d > b.n * a.d

\* a || b on numbers: 0 and NaN are falsy
JsOr(a, b) == IF a.k = "nan" \/ (a.k = "fin" /\ a.n = 0) THEN b ELSE a

\* Math.round replaced by a truncation
MathRoundTruncating(x) ==
    IF x.k # "fin" THEN x ELSE Num(x.n \div x.d)

\* Math.round: nearest integer, halves towards +Infinity
MathRound(x) ==
    IF x.k # "fin" THEN x ELSE Num((2 * x.n + x.d) \div (2 * x.d))

\* Math.round(x * 10) / 10
Round1(x) == JsDiv(MathRound(JsMul(x, Num(10))), Num(10))

\* Array.prototype.slice(start, end) with negative indices counted from the end
Slice(s, start, end) ==
    LET len == Len(s)
        from == IF start < 0 THEN Max(len + start, 0) ELSE Min(start, len)
        to == IF end < 0 THEN Max(len + end, 0) ELSE Min(end, len)
    IN SubSeq(s, from + 1, to)

\* Array.prototype.slice(start)
SliceFrom(s, start) == Slice(s, start, Len(s))

----------------------------------------------------------------------------
(* calculateMetrics *)

\* data.reduce((sum, d) => sum + d.total, 0)
RECURSIVE SumTotal(_)
SumTotal(s) == IF Len(s) = 0 THEN 0 ELSE SumTotal(SubSeq(s, 1, Len(s) - 1)) + s[Len(s)].total

\* data.reduce((sum, d) => sum + d.revenue, 0)
RECURSIVE SumRevenue(_)
SumRevenue(s) ==
    IF Len(s) = 0 THEN Num(0)
    ELSE JsAdd(SumRevenue(SubSeq(s, 1, Len(s) - 1)), s[Len(s)].revenue)

\* data.reduce((sum, d) => sum + d.successRate, 0)
RECURSIVE SumSuccessRate(_)
SumSuccessRate(s) ==
    IF Len(s) = 0 THEN 0 ELSE SumSuccessRate(SubSeq(s, 1, Len(s) - 1)) + s[Len(s)].successRate

\* the peak reduction replacing on greater-or-equal: the last maximum wins
RECURSIVE PeakReduceLast(_, _)
PeakReduceLast(s, max) ==
    IF Len(s) = 0 THEN max
    ELSE PeakReduceLast(Tail(s), IF Head(s).total >= max.total THEN Head(s) ELSE max)

\* data.reduce((max, d) => (d.total > max.total ? d : max), data[0])
RECURSIVE PeakReduce(_, _)
PeakReduce(s, max) ==
    IF Len(s) = 0 THEN max
    ELSE PeakReduce(Tail(s), IF JsGt(Num(Head(s).total), Num(max.total)) THEN Head(s) ELSE max)

\* useState<SummaryMetrics>({...}): the metrics held before any fetch resolves
InitialSummaryMetrics ==
    [totalTransactions |-> Num(0),
     avgTransactions |-> Num(0),
     peakDay |-> [date |-> "", value |-> Num(0)],
     revenueTotal |-> Num(0),
     trend |-> Num(0),
     successRate |-> Num(0),
     growthRate |-> Num(0)]

\* the guard returning what the unguarded divisions would give
EmptyMetricsUnguarded ==
    [totalTransactions |-> Num(0),
     avgTransactions |-> NaN,
     peakDay |-> [date |-> "", value |-> Num(0)],
     revenueTotal |-> Num(0),
     trend |-> NaN,
     successRate |-> NaN,
     growthRate |-> Num(0)]

\* the value returned by the data.length === 0 guard
EmptyMetrics ==
    [totalTransactions |-> Num(0),
     avgTransactions |-> Num(0),
     peakDay |-> [date |-> "", value |-> Num(0)],
     revenueTotal |-> Num(0),
     trend |-> Num(0),
     successRate |-> Num(0),
     growthRate |-> Num(0)]

\* the trend taken relative to the second-half mean
TrendOfSecond(d) ==
    LET midpoint == Len(d) \div 2
        firstHalf == Slice(d, 0, midpoint)
        secondHalf == SliceFrom(d, midpoint)
        firstAvg == JsDiv(Num(SumTotal(firstHalf)), Num(Len(firstHalf)))
        secondAvg == JsDiv(Num(SumTotal(secondHalf)), Num(Len(secondHalf)))
    IN JsMul(JsDiv(JsSub(secondAvg, firstAvg), secondAvg), Num(100))

\* const trend = ((secondAvg - firstAvg) / firstAvg) * 100
TrendOf(d) ==
    LET midpoint == Len(d) \div 2
        firstHalf == Slice(d, 0, midpoint)
        secondHalf == SliceFrom(d, midpoint)
        firstAvg == JsDiv(Num(SumTotal(firstHalf)), Num(Len(firstHalf)))
        secondAvg == JsDiv(Num(SumTotal(secondHalf)), Num(Len(secondHalf)))
    IN JsMul(JsDiv(JsSub(secondAvg, firstAvg), firstAvg), Num(100))

\* the growth rate without the previousAvg > 0 guard
GrowthRateOfUnguarded(d) ==
    LET recentWeek == SliceFrom(d, -7)
        previousWeek == Slice(d, -14, -7)
        recentAvg == JsDiv(Num(SumTotal(recentWeek)), Num(Min(7, Len(recentWeek))))
        previousAvg == JsDiv(Num(SumTotal(previousWeek)), Num(Min(7, Len(previousWeek))))
    IN JsMul(JsDiv(JsSub(recentAvg, previousAvg), previousAvg), Num(100))

\* the growth rate with both window sums divided by 7
GrowthRateOfFixedWindow(d) ==
    LET recentWeek == SliceFrom(d, -7)
        previousWeek == Slice(d, -14, -7)
        recentAvg == JsDiv(Num(SumTotal(recentWeek)), Num(7))
        previousAvg == JsDiv(Num(SumTotal(previousWeek)), Num(7))
    IN IF JsGt(previousAvg, Num(0))
       THEN JsMul(JsDiv(JsSub(recentAvg, previousAvg), previousAvg), Num(100))
       ELSE Num(0)

\* previousAvg > 0 ? ((recentAvg - previousAvg) / previousAvg) * 100 : 0
GrowthRateOf(d) ==
    LET recentWeek == SliceFrom(d, -7)
        previousWeek == Slice(d, -14, -7)
        recentAvg == JsDiv(Num(SumTotal(recentWeek)), Num(Min(7, Len(recentWeek))))
        previousAvg == JsDiv(Num(SumTotal(previousWeek)), Num(Min(7, Len(previousWeek))))
    IN IF JsGt(previousAvg, Num(0))
       THEN JsMul(JsDiv(JsSub(recentAvg, previousAvg), previousAvg), Num(100))
       ELSE Num(0)

calculateMetrics(d) ==
    IF Len(d) = 0 THEN EmptyMetrics
    ELSE
      LET totalTransactions == SumTotal(d)
          avgTransactions == MathRound(JsDiv(Num(totalTransactions), Num(Len(d))))
          peakDay == PeakReduce(d, d[1])
          revenueTotal == SumRevenue(d)
          avgSuccessRate == JsDiv(Num(SumSuccessRate(d)), Num(Len(d)))
      IN [totalTransactions |-> Num(totalTransactions),
          avgTransactions |-> avgTransactions,
          peakDay |-> [date |-> peakDay.date, value |-> Num(peakDay.total)],
          revenueTotal |-> MathRound(revenueTotal),
          trend |-> Round1(TrendOf(d)),
          successRate |-> Round1(avgSuccessRate),
          growthRate |-> Round1(GrowthRateOf(d))]

----------------------------------------------------------------------------
(* Input series of calculateMetrics *)

\* labels of the records of a series, ascending in time
Dates ==
    <<"d01", "d02", "d03", "d04", "d05", "d06", "d07", "d08",
      "d09", "d10", "d11", "d12", "d13", "d14", "d15", "d16">>

RevenueVals == {Num(0), Rat(5, 2)}
SuccessRateVals == {95, 100}

\* a record whose revenue follows its total (15% commission) and that never fails
PlainRecord(i, t) ==
    [date |-> Dates[i], total |-> t, revenue |-> Rat(15 * t, 100), successRate |-> 100]

\* the series of plain records with the totals f[1], ..., f[n]
PlainSeries(f) == [i \in DOMAIN f |-> PlainRecord(i, f[i])]

RichFields == [total : 0..MaxTotal, revenue : RevenueVals, successRate : SuccessRateVals]

\* the series whose i-th record has the fields f[i]
RichSeries(f) ==
    [i \in DOMAIN f |-> [date |-> Dates[i], total |-> f[i].total,
                         revenue |-> f[i].revenue, successRate |-> f[i].successRate]]

\* the four-record series with totals 10, 20, 30, 40
ScenarioTotals == <<10, 20, 30, 40>>

\* the series handed to calculateMetrics
MetricsInputs(d) ==
    \/ \E n \in 0..MaxLen : \E f \in [1..n -> 0..MaxTotal] : d = PlainSeries(f)
    \/ \E n \in 1..MaxRichLen : \E f \in [1..n -> RichFields] : d = RichSeries(f)
    \/ d = PlainSeries(ScenarioTotals)

----------------------------------------------------------------------------
(* Specification of calculateMetrics applied to one series *)

RevenueIdle ==
    /\ revenueData = <<>>
    /\ serviceRevenues = <<>>
    /\ insights = <<>>
    /\ rpc = "idle"

\* the fetching views as they are when none of them is mounted
ViewsIdle ==
    /\ mounted = "none"
    /\ timeRange = "90d"
    /\ selectedService = "all"
    /\ selectedPeriod = "30d"
    /\ isLive = TRUE
    /\ timers = {}
    /\ inflight = {}
    /\ fetches = 0
    /\ chartData = ApiPayload(<<>>)
    /\ summaryMetrics = InitialSummaryMetrics
    /\ crashed = FALSE
    /\ loading = FALSE
    /\ gMetrics = [successRate |-> 0]
    /\ lastDone = [id |-> 0, kind |-> "none"]

InitMetrics ==
    /\ MetricsInputs(data)
    /\ metrics = InitialSummaryMetrics
    /\ mpc = "input"
    /\ RevenueIdle
    /\ HeatmapIdle
    /\ ViewsIdle
    /\ RestIdle

\* setSummaryMetrics(calculateMetrics(rawData))
CalculateMetrics ==
    /\ mpc = "input"
    /\ metrics' = calculateMetrics(data)
    /\ mpc' = "done"
    /\ UNCHANGED <<data, notMetricsVars>>

NextMetrics == CalculateMetrics

SpecMetrics == InitMetrics /\ [][NextMetrics]_vars

----------------------------------------------------------------------------
(* calculateServiceStats and generateRevenueInsights *)

\* Object.keys(serviceMeta), in insertion order
ServiceKeys == <<"electricity", "mobileMoney", "airtime", "water">>

\* serviceMeta[key].name and serviceMeta[key].color
serviceMeta ==
    [electricity |-> [name |-> "Electricity Tokens", color |-> "#3B82F6"],
     mobileMoney |-> [name |-> "Mobile Money", color |-> "#10B981"],
     airtime |-> [name |-> "Airtime Sales", color |-> "#8B5CF6"],
     water |-> [name |-> "Water Bills", color |-> "#F59E0B"]]

\* data.reduce((sum, d) => sum + (d as any)[key], 0)
RECURSIVE SumKey(_, _)
SumKey(s, key) == IF Len(s) = 0 THEN 0 ELSE SumKey(SubSeq(s, 1, Len(s) - 1), key) + s[Len(s)][key]

\* data.filter((d) => d.isPeak).reduce((sum, d) => sum + d.total, 0)
RECURSIVE SumPeakTotal(_)
SumPeakTotal(s) ==
    IF Len(s) = 0 THEN 0
    ELSE SumPeakTotal(SubSeq(s, 1, Len(s) - 1)) + (IF s[Len(s)].isPeak THEN s[Len(s)].total ELSE 0)

\* the entry with the end window taken as the last record only
ServiceStatLastOnly(d, key, totalRev) ==
    LET serviceTotal == SumKey(d, key)
        startAvg == JsOr(JsDiv(Num(SumKey(Slice(d, 0, 3), key)), Num(3)), Num(1))
        endAvg == JsOr(JsDiv(Num(SumKey(SliceFrom(d, -1), key)), Num(3)), Num(1))
        trend == JsMul(JsDiv(JsSub(endAvg, startAvg), startAvg), Num(100))
    IN [name |-> serviceMeta[key].name,
        value |-> serviceTotal,
        color |-> serviceMeta[key].color,
        percentage |-> MathRound(JsMul(JsDiv(Num(serviceTotal), Num(totalRev)), Num(100))),
        trend |-> Round1(trend)]

\* the body of the .map((key) => ...) callback: one ServiceRevenue entry
ServiceStat(d, key, totalRev) ==
    LET serviceTotal == SumKey(d, key)
        startAvg == JsOr(JsDiv(Num(SumKey(Slice(d, 0, 3), key)), Num(3)), Num(1))
        endAvg == JsOr(JsDiv(Num(SumKey(SliceFrom(d, -3), key)), Num(3)), Num(1))
        trend == JsMul(JsDiv(JsSub(endAvg, startAvg), startAvg), Num(100))
    IN [name |-> serviceMeta[key].name,
        value |-> serviceTotal,
        color |-> serviceMeta[key].color,
        percentage |-> MathRound(JsMul(JsDiv(Num(serviceTotal), Num(totalRev)), Num(100))),
        trend |-> Round1(trend)]

\* the comparator ordering the smallest value first
CompareValueAscending(a, b) == Num(a.value - b.value)

\* (a, b) => b.value - a.value
CompareValue(a, b) == Num(b.value - a.value)

\* the comparator ordering the smallest trend first
CompareTrendAscending(a, b) == JsSub(a.trend, b.trend)

\* (a, b) => b.trend - a.trend
CompareTrend(a, b) == JsSub(b.trend, a.trend)

\* Array.prototype.sort is stable: x goes before the first element that the
\* comparator orders after it
RECURSIVE InsertByValue(_, _)
InsertByValue(sorted, x) ==
    IF Len(sorted) = 0 THEN <<x>>
    ELSE IF JsGt(CompareValue(Head(sorted), x), Num(0)) THEN <<x>> \o sorted
    ELSE <<Head(sorted)>> \o InsertByValue(Tail(sorted), x)

RECURSIVE SortByValue(_)
SortByValue(s) ==
    IF Len(s) = 0 THEN <<>> ELSE InsertByValue(SortByValue(SubSeq(s, 1, Len(s) - 1)), s[Len(s)])

RECURSIVE InsertByTrend(_, _)
InsertByTrend(sorted, x) ==
    IF Len(sorted) = 0 THEN <<x>>
    ELSE IF JsGt(CompareTrend(Head(sorted), x), Num(0)) THEN <<x>> \o sorted
    ELSE <<Head(sorted)>> \o InsertByTrend(Tail(sorted), x)

RECURSIVE SortByTrend(_)
SortByTrend(s) ==
    IF Len(s) = 0 THEN <<>> ELSE InsertByTrend(SortByTrend(SubSeq(s, 1, Len(s) - 1)), s[Len(s)])

calculateServiceStats(d) ==
    IF Len(d) = 0 THEN <<>>
    ELSE LET totalRev == SumTotal(d)
         IN SortByValue([i \in 1..Len(ServiceKeys) |-> ServiceStat(d, ServiceKeys[i], totalRev)])

\* An insight card is modelled by its title, the service it names and the
\* number interpolated into its text.
generateRevenueInsights(d, services) ==
    IF Len(d) = 0 \/ Len(services) = 0 THEN <<>>
    ELSE LET dominant == services[1]
             growthStar == SortByTrend(services)[1]
             salaryWeekRev == SumPeakTotal(d)
             totalRev == SumTotal(d)
             salaryWeekShare == MathRound(JsMul(JsDiv(Num(salaryWeekRev), Num(totalRev)), Num(100)))
         IN <<[title |-> "Market Dominance", name |-> dominant.name, stat |-> dominant.percentage],
              [title |-> "Fastest Growth", name |-> growthStar.name, stat |-> growthStar.trend],
              [title |-> "Salary Week Impact", name |-> "", stat |-> salaryWeekShare]>>

\* The services array after generateRevenueInsights(d, services) returns:
\* the trend sort works on the copy [...services], so the argument keeps its
\* order.
ServicesAfterInsights(d, services) == services

----------------------------------------------------------------------------
(* Input series of the revenue view *)

\* a RevenueDataPoint: the total of a record is the sum of its four categories
RevenueRecord(i, e, m, a, w, peak) ==
    [date |-> Dates[i], electricity |-> e, mobileMoney |-> m, airtime |-> a, water |-> w,
     total |-> e + m + a + w, isPeak |-> peak]

RevenueFields ==
    [electricity : 0..MaxRev, mobileMoney : 0..MaxRev, airtime : 0..MaxRev, water : 0..MaxRev,
     isPeak : BOOLEAN]

\* the series whose i-th record has the fields f[i]
GeneralRevenueSeries(f) ==
    [i \in DOMAIN f |-> RevenueRecord(i, f[i].electricity, f[i].mobileMoney, f[i].airtime,
                                      f[i].water, f[i].isPeak)]

\* three records in which category A has values 10,10,10 and category B has
\* 5,5,20; the two other categories are constant over the records
ScenarioA == <<10, 10, 10>>
ScenarioB == <<5, 5, 20>>
ScenarioOther == {0, 40}

KeySet == {ServiceKeys[x] : x \in 1..Len(ServiceKeys)}

ScenarioValue(key, A, B, other, i) ==
    IF key = A THEN ScenarioA[i] ELSE IF key = B THEN ScenarioB[i] ELSE other[key]

ScenarioRevenueSeries(A, B, other, peak) ==
    [i \in 1..3 |-> RevenueRecord(i, ScenarioValue("electricity", A, B, other, i),
                                     ScenarioValue("mobileMoney", A, B, other, i),
                                     ScenarioValue("airtime", A, B, other, i),
                                     ScenarioValue("water", A, B, other, i), peak[i])]

\* a series of n >= 4 records whose first and last records have the category
\* values first and last and whose other records have 1 in every category,
\* so that the first-3 and the last-3 windows differ
TrendRevenueSeries(n, first, last) ==
    [i \in 1..n |->
        IF i = 1 THEN RevenueRecord(i, first.electricity, first.mobileMoney, first.airtime,
                                    first.water, FALSE)
        ELSE IF i = n THEN RevenueRecord(i, last.electricity, last.mobileMoney, last.airtime,
                                         last.water, FALSE)
        ELSE RevenueRecord(i, 1, 1, 1, 1, FALSE)]

CategoryValues == [electricity : 0..MaxRev, mobileMoney : 0..MaxRev, airtime : 0..MaxRev, water : 0..MaxRev]

\* the series held by the revenue view
RevenueInputs(d) ==
    \/ \E n \in 4..MaxTrendLen : \E first, last \in CategoryValues :
          d = TrendRevenueSeries(n, first, last)
    \/ \E n \in 0..MaxRevLen : \E f \in [1..n -> RevenueFields] : d = GeneralRevenueSeries(f)
    \/ \E A, B \in KeySet : \E other \in [KeySet \ {A, B} -> ScenarioOther] :
          \E peak \in [1..3 -> BOOLEAN] :
              A # B /\ d = ScenarioRevenueSeries(A, B, other, peak)

----------------------------------------------------------------------------
(* Specification of the revenue view deriving its statistics from one series *)

MetricsIdle ==
    /\ data = <<>>
    /\ metrics = InitialSummaryMetrics
    /\ mpc = "idle"

InitRevenue ==
    /\ RevenueInputs(revenueData)
    /\ serviceRevenues = <<>>
    /\ insights = <<>>
    /\ rpc = "input"
    /\ MetricsIdle
    /\ HeatmapIdle
    /\ ViewsIdle
    /\ RestIdle

\* React.useMemo(() => calculateServiceStats(revenueData), [revenueData])
CalculateServiceStats ==
    /\ rpc = "input"
    /\ serviceRevenues' = calculateServiceStats(revenueData)
    /\ rpc' = "stats"
    /\ UNCHANGED <<revenueData, insights, notRevenueVars>>

\* React.useMemo(() => generateRevenueInsights(revenueData, serviceRevenues), [...])
GenerateRevenueInsights ==
    /\ rpc = "stats"
    /\ insights' = generateRevenueInsights(revenueData, serviceRevenues)
    /\ serviceRevenues' = ServicesAfterInsights(revenueData, serviceRevenues)
    /\ rpc' = "done"
    /\ UNCHANGED <<revenueData, notRevenueVars>>

NextRevenue == CalculateServiceStats \/ GenerateRevenueInsights

SpecRevenue == InitRevenue /\ [][NextRevenue]_vars

----------------------------------------------------------------------------
(* The peak-hours heatmap view: USSDPeakHoursHeatmap *)

\* const days = [...] and const hours = [...]
days == <<"Monday", "Tuesday", "Wednesday", "Thursday", "Friday", "Saturday", "Sunday">>
hours ==
    <<"00-02", "02-04", "04-06", "06-08", "08-10", "10-12",
      "12-14", "14-16", "16-18", "18-20", "20-22", "22-00">>

\* cell.day.toLowerCase() on the day names
ToLowerCase ==
    [Monday |-> "monday", Tuesday |-> "tuesday", Wednesday |-> "wednesday",
     Thursday |-> "thursday", Friday |-> "friday", Saturday |-> "saturday",
     Sunday |-> "sunday"]

\* A Record<string, number> is kept as the list of its entries <<key, value>>
\* in insertion order, which is the order of Object.entries.
\* totals[key] = (totals[key] || 0) + value
AddToTotals(totals, key, value) ==
    IF \E x \in 1..Len(totals) : totals[x][1] = key
    THEN [x \in 1..Len(totals) |->
             IF totals[x][1] = key THEN <<key, totals[x][2] + value>> ELSE totals[x]]
    ELSE Append(totals, <<key, value>>)

\* data.forEach((cell) => { hourlyTotals[cell.hour] = ... })
RECURSIVE HourlyTotals(_)
HourlyTotals(cells) ==
    IF Len(cells) = 0 THEN <<>>
    ELSE AddToTotals(HourlyTotals(SubSeq(cells, 1, Len(cells) - 1)),
                     cells[Len(cells)].hour, cells[Len(cells)].value)

\* data.forEach((cell) => { dailyTotals[cell.day] = ... })
RECURSIVE DailyTotals(_)
DailyTotals(cells) ==
    IF Len(cells) = 0 THEN <<>>
    ELSE AddToTotals(DailyTotals(SubSeq(cells, 1, Len(cells) - 1)),
                     cells[Len(cells)].day, cells[Len(cells)].value)

\* entries.reduce((a, b) => (a[1] > b[1] ? a : b)) continued from accumulator a
RECURSIVE ReduceMax(_, _)
ReduceMax(entries, a) ==
    IF Len(entries) = 0 THEN a
    ELSE ReduceMax(Tail(entries), IF a[2] > Head(entries)[2] THEN a ELSE Head(entries))

\* entries.reduce((a, b) => (a[1] < b[1] ? a : b)) continued from accumulator a
RECURSIVE ReduceMin(_, _)
ReduceMin(entries, a) ==
    IF Len(entries) = 0 THEN a
    ELSE ReduceMin(Tail(entries), IF a[2] < Head(entries)[2] THEN a ELSE Head(entries))

\* the reduce calls have no initial value: the first entry is the accumulator
MaxEntry(entries) == ReduceMax(Tail(entries), Head(entries))
MinEntry(entries) == ReduceMin(Tail(entries), Head(entries))

\* data.filter(...).reduce((sum, c) => sum + c.value, 0) over weekend / weekday cells
RECURSIVE SumCellValues(_, _)
SumCellValues(cells, weekend) ==
    IF Len(cells) = 0 THEN 0
    ELSE SumCellValues(SubSeq(cells, 1, Len(cells) - 1), weekend)
         + (IF (cells[Len(cells)].day \in {"Saturday", "Sunday"}) = weekend
            THEN cells[Len(cells)].value ELSE 0)

\* the comparison also taking equal averages as a weekend excess
WeekendExceedsOrEqual(weekendAvg, weekdayAvg) ==
    JsGt(weekendAvg, weekdayAvg) \/ weekendAvg = weekdayAvg

\* weekendAvg > weekdayAvg
WeekendExceeds(weekendAvg, weekdayAvg) == JsGt(weekendAvg, weekdayAvg)

\* An InsightItem is modelled by its title, the hour or day interpolated into
\* its text, the number interpolated into its text and its fixed sentence.
generateDynamicInsights(cells) ==
    IF Len(cells) = 0 THEN <<>>
    ELSE LET hourlyTotals == HourlyTotals(cells)
             peakHour == MaxEntry(hourlyTotals)[1]
             dailyTotals == DailyTotals(cells)
             busiestDay == MaxEntry(dailyTotals)
             quietestHour == MinEntry(hourlyTotals)[1]
             weekendVol == SumCellValues(cells, TRUE)
             weekdayVol == SumCellValues(cells, FALSE)
             weekendAvg == JsDiv(Num(weekendVol), Num(2))
             weekdayAvg == JsDiv(Num(weekdayVol), Num(5))
         IN <<[title |-> "Peak Hours", subject |-> peakHour, stat |-> 0, description |-> ""],
              [title |-> "Pattern", subject |-> busiestDay[1], stat |-> busiestDay[2],
               description |-> ""],
              [title |-> "Lowest Activity", subject |-> quietestHour, stat |-> 0,
               description |-> ""],
              [title |-> "Weekend vs Weekday", subject |-> "", stat |-> 0,
               description |-> IF WeekendExceeds(weekendAvg, weekdayAvg)
                               THEN "Weekend volume exceeds weekday averages."
                               ELSE "Weekdays see higher volume than weekends."]>>

generateDynamicRecommendations(cells) ==
    IF Len(cells) = 0 THEN <<>>
    ELSE LET hourlyTotals == HourlyTotals(cells)
             peakHour == MaxEntry(hourlyTotals)[1]
             quietestHour == MinEntry(hourlyTotals)[1]
         IN <<[title |-> "Server Scaling", subject |-> peakHour],
              [title |-> "Maintenance Window", subject |-> quietestHour],
              [title |-> "Support Allocation", subject |-> peakHour]>>

\* hourlyMap after one more cell: the record of the cell's hour is created
\* with its hour label when missing and gets the value under the lowercase day
HourlyMapAdd(map, cell) ==
    LET base == IF cell.hour \in DOMAIN map THEN map[cell.hour]
                ELSE [k \in {"hour"} |-> cell.hour]
        key == ToLowerCase[cell.day]
        row == [k \in DOMAIN base \cup {key} |-> IF k = key THEN cell.value ELSE base[k]]
    IN [h \in DOMAIN map \cup {cell.hour} |-> IF h = cell.hour THEN row ELSE map[h]]

\* heatmapData.forEach((cell) => {...}) building hourlyMap
RECURSIVE HourlyMap(_)
HourlyMap(cells) ==
    IF Len(cells) = 0 THEN [h \in {} |-> Undefined]
    ELSE HourlyMapAdd(HourlyMap(SubSeq(cells, 1, Len(cells) - 1)), cells[Len(cells)])

\* hours.map((hour) => hourlyMap[hour]): undefined for an hour without a cell
generateHourlyData(cells) ==
    LET hourlyMap == HourlyMap(cells)
    IN [x \in 1..Len(hours) |->
           IF hours[x] \in DOMAIN hourlyMap THEN hourlyMap[hours[x]] ELSE Undefined]

\* heatmapData.find in place of filter: only the first cell of the day
DayCellsFirstMatch(cells, day) ==
    LET S == {x \in 1..Len(cells) : cells[x].day = day}
    IN IF S = {} THEN <<>> ELSE <<cells[CHOOSE x \in S : \A y \in S : x <= y]>>

\* heatmapData.filter((cell) => cell.day === day)
RECURSIVE DayCells(_, _)
DayCells(cells, day) ==
    IF Len(cells) = 0 THEN <<>>
    ELSE LET rest == DayCells(SubSeq(cells, 1, Len(cells) - 1), day)
         IN IF cells[Len(cells)].day = day THEN Append(rest, cells[Len(cells)]) ELSE rest

\* the peak reduction replacing on greater-or-equal: the last maximum wins
RECURSIVE PeakCellLast(_, _)
PeakCellLast(cells, max) ==
    IF Len(cells) = 0 THEN max
    ELSE PeakCellLast(Tail(cells), IF Head(cells).value >= max.value THEN Head(cells) ELSE max)

\* dayCells.reduce((max, cell) => (cell.value > max.value ? cell : max), dayCells[0])
RECURSIVE PeakCell(_, _)
PeakCell(cells, max) ==
    IF Len(cells) = 0 THEN max
    ELSE PeakCell(Tail(cells), IF Head(cells).value > max.value THEN Head(cells) ELSE max)

\* the body of the days.map((day, index) => ...) callback; index is 0-based
DayStat(cells, day, index) ==
    LET dayCells == DayCells(cells, day)
        total == SumCellValues(dayCells, TRUE) + SumCellValues(dayCells, FALSE)
        peakCell == IF Len(dayCells) = 0 THEN Undefined ELSE PeakCell(dayCells, dayCells[1])
    IN [day |-> day,
        total |-> total,
        peak |-> IF peakCell = Undefined THEN 0
                 ELSE IF peakCell.value # 0 THEN peakCell.value ELSE 0,
        peakHour |-> IF peakCell = Undefined THEN ""
                     ELSE IF peakCell.hour # "" THEN peakCell.hour ELSE "",
        isWeekend |-> index >= 5]

calculateDayStats(cells) == [x \in 1..Len(days) |-> DayStat(cells, days[x], x - 1)]

\* the effect on [heatmapData] without its length guard
HeatmapEffectUnguarded(cells, held) ==
    [hourlyData |-> generateHourlyData(cells), dayStats |-> calculateDayStats(cells)]

\* heatmapData.reduce((sum, cell) => sum + cell.value, 0)
RECURSIVE totalSessions(_)
totalSessions(cells) ==
    IF Len(cells) = 0 THEN 0
    ELSE totalSessions(SubSeq(cells, 1, Len(cells) - 1)) + cells[Len(cells)].value

\* useEffect(() => { if (heatmapData.length > 0) {...} }, [heatmapData]):
\* the hourlyData and dayStats held afterwards
HeatmapEffectResult(cells, held) ==
    IF Len(cells) > 0
    THEN [hourlyData |-> generateHourlyData(cells), dayStats |-> calculateDayStats(cells)]
    ELSE held

----------------------------------------------------------------------------
(* Cell lists returned by the peak-hours endpoint *)

\* the days and hour buckets of the cells of the checked lists
InputDays == {"Monday", "Sunday"}
InputHours == {"08-10", "10-12", "22-00"}

\* day, hour and value of a cell; intensity and isPeak are not read by the
\* functions above
CellFields == [day : InputDays, hour : InputHours, value : 0..MaxCellValue]

\* Monday with the values 100 and 50 at "08-10" and "10-12"
ScenarioCells ==
    <<[day |-> "Monday", hour |-> "08-10", value |-> 100],
      [day |-> "Monday", hour |-> "10-12", value |-> 50]>>

\* a weekend total of 2 and a weekday total of 5: both averages are 1
EqualAveragesCells ==
    <<[day |-> "Sunday", hour |-> "22-00", value |-> 2],
      [day |-> "Monday", hour |-> "08-10", value |-> 5]>>

\* at most one cell for a (day, hour) pair
DistinctCells(cells) ==
    \A x, y \in 1..Len(cells) :
        (cells[x].day = cells[y].day /\ cells[x].hour = cells[y].hour) => x = y

----------------------------------------------------------------------------
(* Specification of the heatmap view: one fetch on mount *)

\* the view after its first render, with the fetch of the mount effect in flight
InitHeatmap ==
    /\ heatmapData = <<>>
    /\ hourlyData = <<>>
    /\ dayStats = <<>>
    /\ hLoading = TRUE
    /\ hInsights = generateDynamicInsights(<<>>)
    /\ hRecommendations = generateDynamicRecommendations(<<>>)
    /\ hResult = ApiPending
    /\ hpc = "fetching"
    /\ MetricsIdle
    /\ RevenueIdle
    /\ ViewsIdle
    /\ RestIdle

\* fetchHeatmapData resumes with the payload: if (result) setHeatmapData(result)
HeatmapResolvePayload ==
    /\ hpc = "fetching"
    /\ \/ \E n \in 0..MaxCells : \E f \in [1..n -> CellFields] :
              DistinctCells(f) /\ heatmapData' = f
       \/ heatmapData' = ScenarioCells
       \/ heatmapData' = EqualAveragesCells
    /\ hResult' = ApiPayload(heatmapData')
    /\ hLoading' = FALSE
    /\ hpc' = "render"
    /\ UNCHANGED <<hourlyData, dayStats, hInsights, hRecommendations, notHeatmapVars>>

\* fetchHeatmapData resumes with null: nothing is set but loading
HeatmapResolveNull ==
    /\ hpc = "fetching"
    /\ hResult' = ApiNull
    /\ hLoading' = FALSE
    /\ hpc' = "settled"
    /\ UNCHANGED <<heatmapData, hourlyData, dayStats, hInsights, hRecommendations, notHeatmapVars>>

\* api.getPeakHours() rejects: the catch logs, finally clears loading
HeatmapReject ==
    /\ hpc = "fetching"
    /\ hResult' = ApiReject
    /\ hLoading' = FALSE
    /\ hpc' = "settled"
    /\ UNCHANGED <<heatmapData, hourlyData, dayStats, hInsights, hRecommendations, notHeatmapVars>>

\* the render after setHeatmapData: both useMemo values are recomputed
HeatmapRender ==
    /\ hpc = "render"
    /\ hInsights' = generateDynamicInsights(heatmapData)
    /\ hRecommendations' = generateDynamicRecommendations(heatmapData)
    /\ hpc' = "effect"
    /\ UNCHANGED <<heatmapData, hourlyData, dayStats, hLoading, hResult, notHeatmapVars>>

\* the effect on [heatmapData] after that render
HeatmapEffect ==
    /\ hpc = "effect"
    /\ LET r == HeatmapEffectResult(heatmapData, [hourlyData |-> hourlyData, dayStats |-> dayStats])
       IN /\ hourlyData' = r.hourlyData
          /\ dayStats' = r.dayStats
    /\ hpc' = "settled"
    /\ UNCHANGED <<heatmapData, hLoading, hInsights, hRecommendations, hResult, notHeatmapVars>>

NextHeatmap ==
    \/ HeatmapResolvePayload
    \/ HeatmapResolveNull
    \/ HeatmapReject
    \/ HeatmapRender
    \/ HeatmapEffect

SpecHeatmap == InitHeatmap /\ [][NextHeatmap]_vars

----------------------------------------------------------------------------
(* The three fetching views: TransactionVolumeChart, USSDRevenueTrends and *)
(* USSDGauge.  The components share no state, so a behaviour mounts one of *)
(* them; requests stay in flight until the backend answers, in any order.  *)

\* the values of the selectors that the checked behaviours choose from
InputTimeRanges == {"90d", "7d"}
InputServices == {"all", "electricity"}
InputPeriods == {"30d", "7d"}

\* calendar dates of the rows of a revenue payload, as (month, day) of the
\* ISO date string; one salary-week day, two holidays and an ordinary day
ViewDates ==
    <<[month |-> 1, day |-> 15], [month |-> 12, day |-> 25],
      [month |-> 1, day |-> 1], [month |-> 6, day |-> 3]>>

\* a record of the volume endpoint with the total t: all its transactions
\* are electricity purchases, revenue is a 15% commission, none fails
VolumeRecord(i, t) ==
    [date |-> Dates[i], total |-> t, electricity |-> t, water |-> 0, airtime |-> 0,
     mobileMoney |-> 0, banking |-> 0, revenue |-> Rat(15 * t, 100), successRate |-> 100]

\* payload n of the transaction-volume endpoint: n records with the totals
\* 0, ..., n - 1
VolumePayload(n) == [i \in 1..n |-> VolumeRecord(i, i - 1)]

\* a raw row of the revenue endpoint: date, the four categories and total
RawRevenueRow(i, e) ==
    [date |-> ViewDates[i], electricity |-> e, mobileMoney |-> 0, airtime |-> 0, water |-> 0,
     total |-> e]

\* payload n of the revenue endpoint: n raw rows with the totals 1, ..., n
RevenuePayload(n) == [i \in 1..n |-> RawRevenueRow(i, i)]

\* dates around the salary week: the day after it, a first of the month,
\* its last day and the day before it
SalaryWeekDates ==
    <<[month |-> 3, day |-> 21], [month |-> 3, day |-> 1],
      [month |-> 8, day |-> 20], [month |-> 8, day |-> 14]>>

\* payload n of the revenue endpoint around the salary week: n raw rows with
\* the totals 0, 3, 4, ..., the first day without revenue
SalaryWeekPayload(n) ==
    [i \in 1..n |->
        [date |-> SalaryWeekDates[i], electricity |-> 0, mobileMoney |-> 0, airtime |-> 0,
         water |-> IF i = 1 THEN 0 ELSE i + 1, total |-> IF i = 1 THEN 0 ELSE i + 1]]

\* month names of toLocaleDateString("en-US", {month: "short"})
ShortMonth == <<"Jan", "Feb", "Mar", "Apr", "May", "Jun", "Jul", "Aug", "Sep", "Oct", "Nov", "Dec">>

\* days of the months of a common year
DaysInMonth == <<31, 28, 31, 30, 31, 30, 31, 31, 30, 31, 30, 31>>

\* new Date(data.date).getDate() and .getMonth() (0-based): the ISO date
\* is parsed as midnight UTC and the getters read it in the browser's time
\* zone, which west of UTC is still on the previous calendar day
getDate(date) ==
    IF ~westOfUTC THEN date.day
    ELSE IF date.day > 1 THEN date.day - 1
    ELSE DaysInMonth[((date.month + 10) % 12) + 1]
getMonth(date) ==
    IF westOfUTC /\ date.day = 1 THEN (date.month + 10) % 12 ELSE date.month - 1

enhanceDataPoint(item, prevTotal) ==
    LET dayOfMonth == getDate(item.date)
        month == getMonth(item.date)
        isPeak == dayOfMonth >= 15 /\ dayOfMonth <= 20
        isHoliday == \/ (month = 11 /\ dayOfMonth >= 25 /\ dayOfMonth <= 31)
                     \/ (month = 0 /\ dayOfMonth = 1)
        growth == IF prevTotal > 0
                  THEN JsMul(JsDiv(Num(item.total - prevTotal), Num(prevTotal)), Num(100))
                  ELSE Num(0)
    IN [date |-> item.date, electricity |-> item.electricity, mobileMoney |-> item.mobileMoney,
        airtime |-> item.airtime, water |-> item.water, total |-> item.total,
        dateLabel |-> [month |-> ShortMonth[month + 1], day |-> dayOfMonth],
        isPeak |-> isPeak, isHoliday |-> isHoliday, isProjected |-> FALSE,
        growth |-> Round1(growth)]

\* result.map((item, index) => enhanceDataPoint(item, prevTotal))
ProcessRevenue(result) ==
    [i \in 1..Len(result) |->
        enhanceDataPoint(result[i], IF i > 1 THEN result[i - 1].total ELSE result[i].total)]

\* useState<MetricData>({successRate: 0, ...}); the other fields of
\* MetricData travel with successRate
InitialGaugeMetrics == [successRate |-> 0]

\* payload n of the success-rate endpoint
GaugePayload(n) == [metrics |-> [successRate |-> 90 + n], networks |-> <<>>]

\* fetchData appending the response to the held series
VolumeAfterResponseMerging(held, response) ==
    IF response.kind = "reject"
    THEN [chartData |-> held.chartData, summaryMetrics |-> held.summaryMetrics,
          aggregated |-> FALSE, threw |-> FALSE]
    ELSE IF response.kind = "null"
    THEN [chartData |-> ApiNull, summaryMetrics |-> held.summaryMetrics,
          aggregated |-> TRUE, threw |-> TRUE]
    ELSE [chartData |-> ApiPayload(held.chartData.rows \o response.rows),
          summaryMetrics |-> calculateMetrics(held.chartData.rows \o response.rows),
          aggregated |-> TRUE, threw |-> FALSE]

\* fetchData of the volume view from the resumption of the await on: the
\* held state afterwards, whether calculateMetrics was called and whether
\* the body threw into its catch.  calculateMetrics(null) throws on
\* data.length after setChartData(null) has been queued.
VolumeAfterResponse(held, response) ==
    IF response.kind = "reject"
    THEN [chartData |-> held.chartData, summaryMetrics |-> held.summaryMetrics,
          aggregated |-> FALSE, threw |-> FALSE]
    ELSE IF response.kind = "null"
    THEN [chartData |-> ApiNull, summaryMetrics |-> held.summaryMetrics,
          aggregated |-> TRUE, threw |-> TRUE]
    ELSE [chartData |-> response, summaryMetrics |-> calculateMetrics(response.rows),
          aggregated |-> TRUE, threw |-> FALSE]

\* the handler dropping the response it is given
RevenueAfterResponseIgnored(held, response) ==
    [revenueData |-> held.revenueData, aggregated |-> FALSE, threw |-> FALSE]

\* fetchRevenueData from the resumption of the await on
RevenueAfterResponse(held, response) ==
    IF response.kind = "payload"
    THEN [revenueData |-> ProcessRevenue(response.rows), aggregated |-> TRUE, threw |-> FALSE]
    ELSE [revenueData |-> held.revenueData, aggregated |-> FALSE, threw |-> FALSE]

\* the handler resetting the metrics when the call rejects
GaugeAfterResponseClearing(held, response) ==
    IF response.kind = "payload"
    THEN [metrics |-> response.rows.metrics, aggregated |-> TRUE, threw |-> FALSE]
    ELSE [metrics |-> InitialGaugeMetrics, aggregated |-> FALSE, threw |-> FALSE]

\* fetchGaugeData from the resumption of the await on
GaugeAfterResponse(held, response) ==
    IF response.kind = "payload"
    THEN [metrics |-> response.rows.metrics, aggregated |-> TRUE, threw |-> FALSE]
    ELSE [metrics |-> held.metrics, aggregated |-> FALSE, threw |-> FALSE]

\* an effect cleanup that leaves the interval running
GaugeCleanupKeeping(running) == running

\* return () => clearInterval(interval): the timers left by the cleanup of
\* the effect that started the timers in running
GaugeCleanup(running) == {}

\* ussdServices.slice(1): the services of the distribution panel
DistributionServices == <<"electricity", "water", "airtime", "mobileMoney", "banking">>

\* chartData.reduce((sum, d) => sum + d[service.value], 0)
RECURSIVE ServiceCount(_, _)
ServiceCount(series, service) ==
    IF Len(series) = 0 THEN 0
    ELSE ServiceCount(SubSeq(series, 1, Len(series) - 1), service) + series[Len(series)][service]

\* (total / summaryMetrics.totalTransactions) * 100 of the render
DistributionShare(series, held, service) ==
    JsMul(JsDiv(Num(ServiceCount(series, service)), held.totalTransactions), Num(100))

\* Math.round(summaryMetrics.revenueTotal / chartData.length) of the render
AverageRevenue(series, held) == MathRound(JsDiv(held.revenueTotal, Num(Len(series))))

\* what the mounted view holds: its series or metrics and what is derived
HeldState ==
    CASE mounted = "volume" -> [chartData |-> chartData, summaryMetrics |-> summaryMetrics]
      [] mounted = "revenue" ->
            [revenueData |-> revenueData, serviceRevenues |-> serviceRevenues,
             insights |-> insights]
      [] OTHER -> [metrics |-> gMetrics]

\* the parameters the api call of the mounted view is made with
CurrentParams ==
    CASE mounted = "volume" -> [timeRange |-> timeRange, selectedService |-> selectedService]
      [] mounted = "revenue" -> [timeRange |-> timeRange]
      [] OTHER -> [selectedPeriod |-> selectedPeriod]

\* the request started by the next api call: its number, whether an effect
\* or the interval made the call, its arguments, and what the view held
\* when it was made
NewRequest(origin, params) ==
    [id |-> fetches + 1, origin |-> origin, params |-> params, before |-> HeldState]

\* the record kept of the request that settled last: the request, what it
\* settled with, what its handler did, and what the view held just before
Done(req, response, after) ==
    [id |-> req.id, kind |-> response.kind, rows |-> response.rows, params |-> req.params,
     aggregated |-> after.aggregated, threw |-> after.threw, before |-> req.before,
     prev |-> HeldState]

----------------------------------------------------------------------------
(* Specification of the fetching views *)

\* a view after its first render and mount effect: the first request is in
\* flight (the revenue view has set loading, the gauge has set its interval)
InitViews ==
    /\ mounted \in {"volume", "revenue", "gauge"}
    /\ timeRange = "90d"
    /\ selectedService = "all"
    /\ selectedPeriod = "30d"
    /\ isLive = TRUE
    /\ chartData = ApiPayload(<<>>)
    /\ summaryMetrics = InitialSummaryMetrics
    /\ crashed = FALSE
    /\ loading = (mounted = "revenue")
    /\ gMetrics = InitialGaugeMetrics
    /\ fetches = 1
    /\ timers = IF mounted = "gauge" THEN {[id |-> 1, selectedPeriod |-> "30d"]} ELSE {}
    /\ MetricsIdle
    /\ RevenueIdle
    /\ HeatmapIdle
    /\ RequestIdle
    /\ DemographicsIdle
    /\ westOfUTC \in (IF mounted = "revenue" THEN BOOLEAN ELSE {FALSE})
    /\ inflight = {[id |-> 1, origin |-> "effect", params |-> CurrentParams,
                    before |-> HeldState]}
    /\ lastDone = [id |-> 0, kind |-> "none"]

\* onChange of the range selector, the render and the effect on
\* [timeRange, selectedService]: a new fetchData call
VolumeSetTimeRange ==
    /\ mounted = "volume" /\ ~crashed /\ fetches < MaxFetches
    /\ \E r \in InputTimeRanges \ {timeRange} :
          /\ timeRange' = r
          /\ inflight' = inflight \cup
                {NewRequest("effect", [timeRange |-> r, selectedService |-> selectedService])}
    /\ fetches' = fetches + 1
    /\ UNCHANGED <<mounted, selectedService, selectedPeriod, isLive, timers, chartData,
                   summaryMetrics, crashed, loading, gMetrics, lastDone, notViewVars>>

\* onClick of a service button and the effect on [timeRange, selectedService]
VolumeSetSelectedService ==
    /\ mounted = "volume" /\ ~crashed /\ fetches < MaxFetches
    /\ \E s \in InputServices \ {selectedService} :
          /\ selectedService' = s
          /\ inflight' = inflight \cup
                {NewRequest("effect", [timeRange |-> timeRange, selectedService |-> s])}
    /\ fetches' = fetches + 1
    /\ UNCHANGED <<mounted, timeRange, selectedPeriod, isLive, timers, chartData,
                   summaryMetrics, crashed, loading, gMetrics, lastDone, notViewVars>>

\* fetchData resumes with the response to req; the render that follows
\* throws on chartData.length when chartData is null
VolumeComplete(req, response) ==
    LET after == VolumeAfterResponse(HeldState, response)
    IN /\ chartData' = after.chartData
       /\ summaryMetrics' = after.summaryMetrics
       /\ crashed' = (after.chartData.kind = "null")
       /\ inflight' = inflight \ {req}
       /\ lastDone' = Done(req, response, after)

VolumeResolve ==
    /\ mounted = "volume" /\ ~crashed
    /\ \E req \in inflight :
          \/ \E n \in 0..MaxPayload : VolumeComplete(req, ApiPayload(VolumePayload(n)))
          \/ VolumeComplete(req, ApiNull)
          \/ VolumeComplete(req, ApiReject)
    /\ UNCHANGED <<mounted, timeRange, selectedService, selectedPeriod, isLive, timers, fetches,
                   loading, gMetrics, notViewVars>>

\* onClick of a range button of the revenue view and the effect on
\* [timeRange]: setLoading(true) and a new api call
RevenueSetTimeRange ==
    /\ mounted = "revenue" /\ fetches < MaxFetches
    /\ \E r \in InputTimeRanges \ {timeRange} :
          /\ timeRange' = r
          /\ inflight' = inflight \cup {NewRequest("effect", [timeRange |-> r])}
    /\ loading' = TRUE
    /\ fetches' = fetches + 1
    /\ UNCHANGED <<mounted, selectedService, selectedPeriod, isLive, timers, chartData,
                   summaryMetrics, crashed, gMetrics, lastDone, notViewVars>>

\* a finally that leaves loading set when the call rejected
LoadingAfterSettleKeptOnReject(kind) == kind = "reject"

\* finally { setLoading(false) } of fetchRevenueData
LoadingAfterSettle(kind) == FALSE

\* fetchRevenueData resumes with the response to req, finally clears
\* loading, and the render recomputes both useMemo values
RevenueComplete(req, response) ==
    LET after == RevenueAfterResponse(HeldState, response)
        services == calculateServiceStats(after.revenueData)
        cards == generateRevenueInsights(after.revenueData, services)
    IN /\ revenueData' = after.revenueData
       /\ serviceRevenues' = services
       /\ insights' = cards
       /\ loading' = LoadingAfterSettle(response.kind)
       /\ inflight' = inflight \ {req}
       /\ lastDone' = Done(req, response, after)

RevenueResolve ==
    /\ mounted = "revenue"
    /\ \E req \in inflight :
          \/ \E n \in 0..MaxPayload : RevenueComplete(req, ApiPayload(RevenuePayload(n)))
          \/ \E n \in 1..MaxPayload : RevenueComplete(req, ApiPayload(SalaryWeekPayload(n)))
          \/ RevenueComplete(req, ApiNull)
          \/ RevenueComplete(req, ApiReject)
    /\ UNCHANGED <<mounted, timeRange, selectedService, selectedPeriod, isLive, timers, fetches,
                   chartData, summaryMetrics, crashed, gMetrics, metricsVars, heatmapVars, rpc,
                   restVars>>

\* an effect that starts its interval without running the previous cleanup
GaugeEffectWithoutCleanup(live, period) ==
    /\ inflight' = inflight \cup {NewRequest("effect", [selectedPeriod |-> period])}
    /\ timers' = timers \cup
                    (IF live THEN {[id |-> fetches + 1, selectedPeriod |-> period]} ELSE {})
    /\ fetches' = fetches + 1

\* the effect on [isLive, selectedPeriod] re-runs: the previous cleanup,
\* an immediate fetchGaugeData, and a new interval when live
GaugeEffect(live, period) ==
    /\ inflight' = inflight \cup {NewRequest("effect", [selectedPeriod |-> period])}
    /\ timers' = GaugeCleanup(timers) \cup
                    (IF live THEN {[id |-> fetches + 1, selectedPeriod |-> period]} ELSE {})
    /\ fetches' = fetches + 1

\* onClick of the live button: setIsLive(!isLive)
GaugeToggleLive ==
    /\ mounted = "gauge" /\ fetches < MaxFetches
    /\ isLive' = ~isLive
    /\ GaugeEffect(~isLive, selectedPeriod)
    /\ UNCHANGED <<mounted, timeRange, selectedService, selectedPeriod, chartData,
                   summaryMetrics, crashed, loading, gMetrics, lastDone, notViewVars>>

\* onChange of the period selector: setSelectedPeriod(value)
GaugeSetSelectedPeriod ==
    /\ mounted = "gauge" /\ fetches < MaxFetches
    /\ \E p \in InputPeriods \ {selectedPeriod} :
          /\ selectedPeriod' = p
          /\ GaugeEffect(isLive, p)
    /\ UNCHANGED <<mounted, timeRange, selectedService, isLive, chartData,
                   summaryMetrics, crashed, loading, gMetrics, lastDone, notViewVars>>

\* a running interval fires: fetchGaugeData with the period of its closure
GaugeTick ==
    /\ fetches < MaxFetches
    /\ \E t \in timers :
          inflight' = inflight \cup {NewRequest("timer", [selectedPeriod |-> t.selectedPeriod])}
    /\ fetches' = fetches + 1
    /\ UNCHANGED <<mounted, timeRange, selectedService, selectedPeriod, isLive, timers,
                   chartData, summaryMetrics, crashed, loading, gMetrics, lastDone,
                   notViewVars>>

\* fetchGaugeData resumes with the response to req
GaugeComplete(req, response) ==
    LET after == GaugeAfterResponse(HeldState, response)
    IN /\ gMetrics' = after.metrics
       /\ inflight' = inflight \ {req}
       /\ lastDone' = Done(req, response, after)

GaugeResolve ==
    /\ mounted = "gauge"
    /\ \E req \in inflight :
          \/ \E n \in 0..MaxPayload : GaugeComplete(req, ApiPayload(GaugePayload(n)))
          \/ GaugeComplete(req, ApiNull)
          \/ GaugeComplete(req, ApiReject)
    /\ UNCHANGED <<mounted, timeRange, selectedService, selectedPeriod, isLive, timers, fetches,
                   chartData, summaryMetrics, crashed, loading, notViewVars>>

\* the gauge is unmounted: the cleanup of its effect runs
GaugeUnmount ==
    /\ mounted = "gauge"
    /\ mounted' = "none"
    /\ timers' = GaugeCleanup(timers)
    /\ UNCHANGED <<timeRange, selectedService, selectedPeriod, isLive, inflight, fetches,
                   chartData, summaryMetrics, crashed, loading, gMetrics, lastDone,
                   notViewVars>>

NextViews ==
    \/ VolumeSetTimeRange
    \/ VolumeSetSelectedService
    \/ VolumeResolve
    \/ RevenueSetTimeRange
    \/ RevenueResolve
    \/ GaugeToggleLive
    \/ GaugeSetSelectedPeriod
    \/ GaugeTick
    \/ GaugeResolve
    \/ GaugeUnmount

SpecViews == InitViews /\ [][NextViews]_vars

----------------------------------------------------------------------------
(* The demographics view, USSDUserDemographics: one fetch on mount *)

\* provinceConfig: the colour of a province, "Other Provinces" by default
ProvinceColor(name) ==
    CASE name = "Lusaka" -> "#3B82F6"
      [] name = "Copperbelt" -> "#10B981"
      [] name = "Southern" -> "#8B5CF6"
      [] OTHER -> "#F59E0B"

ProvinceNames == <<"Lusaka", "Copperbelt", "Southern", "Eastern">>

\* payload n of the demographics endpoint: n users, one in each of the
\* first n provinces; complete is false when the object lacks one of the
\* lists that the view maps over.  The other lists travel with provinceData.
DemographicsPayload(n, complete) ==
    [totalUsers |-> n, complete |-> complete,
     provinceData |-> [i \in 1..n |-> [name |-> ProvinceNames[i], users |-> 1]]]

\* the hydratedData object built from the result
Hydrate(result) ==
    [totalUsers |-> result.totalUsers, complete |-> result.complete,
     provinceData |-> [i \in 1..Len(result.provinceData) |->
                         [name |-> result.provinceData[i].name,
                          users |-> result.provinceData[i].users,
                          color |-> ProvinceColor(result.provinceData[i].name)]]]

\* the view after its first render, with the fetch of the mount effect in
\* flight
InitDemographics ==
    /\ demoData = ApiNull
    /\ demoLoading = TRUE
    /\ demoResult = ApiPending
    /\ RequestIdle
    /\ EnvironmentIdle
    /\ MetricsIdle
    /\ RevenueIdle
    /\ HeatmapIdle
    /\ ViewsIdle

\* fetchData resumes with a payload: setData(hydratedData), or the catch
\* when a list is missing and .map throws; finally setLoading(false)
DemographicsResolvePayload ==
    /\ demoResult.kind = "pending"
    /\ \E n \in 0..MaxPayload : \E complete \in BOOLEAN :
          LET result == DemographicsPayload(n, complete)
          IN /\ demoResult' = ApiPayload(result)
             /\ demoData' = IF complete THEN ApiPayload(Hydrate(result)) ELSE demoData
    /\ demoLoading' = FALSE
    /\ UNCHANGED notDemographicsVars

\* fetchData resumes with null: alert("Fetch error"); finally setLoading(false)
DemographicsResolveNull ==
    /\ demoResult.kind = "pending"
    /\ demoResult' = ApiNull
    /\ demoLoading' = FALSE
    /\ UNCHANGED <<demoData, notDemographicsVars>>

\* api.getDemographics() rejects: the catch logs; finally setLoading(false)
DemographicsReject ==
    /\ demoResult.kind = "pending"
    /\ demoResult' = ApiReject
    /\ demoLoading' = FALSE
    /\ UNCHANGED <<demoData, notDemographicsVars>>

----------------------------------------------------------------------------
(* Specification of the three views with a loading overlay: the heatmap,  *)
(* the revenue view and the demographics view, one of them mounted        *)

InitLoading ==
    \/ InitHeatmap
    \/ InitViews /\ mounted = "revenue" /\ ~westOfUTC
    \/ InitDemographics

NextLoading ==
    \/ HeatmapResolvePayload
    \/ HeatmapResolveNull
    \/ HeatmapReject
    \/ HeatmapRender
    \/ HeatmapEffect
    \/ RevenueSetTimeRange
    \/ RevenueResolve
    \/ DemographicsResolvePayload
    \/ DemographicsResolveNull
    \/ DemographicsReject

SpecLoading == InitLoading /\ [][NextLoading]_vars

----------------------------------------------------------------------------
(* api.request: one call, from the fetch to what the call settles with *)

\* paths of the endpoint functions of api
Paths == {"/transactions/volume/90d/all", "/transactions/success-rate/30d", "/peak-hours",
          "/revenue/trends/90d"}

\* values of the success property of the envelope, as JavaScript literals
SuccessValues == {"true", "false", "undefined", "1", "0"}

\* if (response.success): the truthiness of such a value
ToBoolean(v) == v \notin {"false", "undefined", "0"}

\* what fetch and the backend can answer: fetch itself rejects; a status
\* that is not ok, with the body text; an ok status with a body that is not
\* JSON; an ok status with the envelope {success, payload}
HttpRejected == [fetch |-> "rejected", ok |-> FALSE, text |-> "", parses |-> FALSE,
                 success |-> "undefined", payload |-> <<>>]
HttpNotOk(text) == [fetch |-> "resolved", ok |-> FALSE, text |-> text, parses |-> FALSE,
                    success |-> "undefined", payload |-> <<>>]
HttpNotJson == [fetch |-> "resolved", ok |-> TRUE, text |-> "<html>", parses |-> FALSE,
                success |-> "undefined", payload |-> <<>>]
HttpEnvelope(success, payload) ==
    [fetch |-> "resolved", ok |-> TRUE, text |-> "", parses |-> TRUE,
     success |-> success, payload |-> payload]

\* request returning the envelope when success is falsy
requestReturningEnvelope(p, h) ==
    IF h.fetch = "rejected" \/ ~h.ok \/ ~h.parses THEN ApiReject
    ELSE IF ToBoolean(h.success) THEN ApiPayload(h.payload)
    ELSE [kind |-> "envelope", rows |-> h.payload]

\* async function request(path, options): what the returned promise settles
\* with; it rejects when fetch or res.json() rejects and on the throw
request(p, h) ==
    IF h.fetch = "rejected" \/ ~h.ok \/ ~h.parses THEN ApiReject
    ELSE IF ToBoolean(h.success) THEN ApiPayload(h.payload)
    ELSE ApiNull

\* a call of request has been made and the backend's answer is chosen
InitRequest ==
    /\ path \in Paths
    /\ \/ http = HttpRejected
       \/ \E text \in {"", "Internal Server Error"} : http = HttpNotOk(text)
       \/ http = HttpNotJson
       \/ \E success \in SuccessValues : \E n \in 0..MaxPayload :
             http = HttpEnvelope(success, VolumePayload(n))
    /\ outcome = ApiPending
    /\ DemographicsIdle
    /\ EnvironmentIdle
    /\ MetricsIdle
    /\ RevenueIdle
    /\ HeatmapIdle
    /\ ViewsIdle

\* the promise returned by request settles
Request ==
    /\ outcome.kind = "pending"
    /\ outcome' = request(path, http)
    /\ UNCHANGED <<path, http, notRequestVars>>

NextRequest == Request

SpecRequest == InitRequest /\ [][NextRequest]_vars

----------------------------------------------------------------------------
(* Properties of calculateMetrics *)

\* sum of the totals of the records at positions lo..hi (1-based)
RECURSIVE TotalsBetween(_, _, _)
TotalsBetween(d, lo, hi) == IF lo > hi THEN 0 ELSE d[lo].total + TotalsBetween(d, lo + 1, hi)

\* x rounded to the nearest integer, halves up, for the fraction num/den with den > 0
RoundHalfUp(num, den) == (2 * num + den) \div (2 * den)

MetricsDone == mpc = "done"

\* C1: for a non-empty series totalTransactions is the exact sum of the totals
\* and avgTransactions is round(totalTransactions / count), halves rounded up.
C1_TotalAndAverage ==
    (MetricsDone /\ Len(data) > 0) =>
        LET t == TotalsBetween(data, 1, Len(data))
        IN /\ metrics.totalTransactions = Num(t)
           /\ metrics.avgTransactions = Num(RoundHalfUp(t, Len(data)))

\* a series whose mean falls exactly on a half and is rounded up
C1_Witness ==
    /\ MetricsDone
    /\ Len(data) > 1
    /\ (2 * TotalsBetween(data, 1, Len(data))) % (2 * Len(data)) = Len(data)
    /\ metrics.avgTransactions.n * Len(data) > TotalsBetween(data, 1, Len(data))

\* C2: for a non-empty series peakDay carries the label and total of a record
\* of the input whose total is >= every other total, the earliest one on ties.
C2_PeakIsFirstMaximum ==
    (MetricsDone /\ Len(data) > 0) =>
        \E i \in 1..Len(data) :
            /\ metrics.peakDay = [date |-> data[i].date, value |-> Num(data[i].total)]
            /\ \A j \in 1..Len(data) : data[j].total <= data[i].total
            /\ \A j \in 1..(i - 1) : data[j].total < data[i].total

\* the maximum occurs twice, and first at a position other than the first record
C2_Witness ==
    /\ MetricsDone
    /\ \E i, j \in 2..Len(data) :
          /\ i < j
          /\ data[i].total = data[j].total
          /\ data[1].total < data[i].total
          /\ \A m \in 1..Len(data) : data[m].total <= data[i].total
          /\ metrics.peakDay.date = data[i].date

\* C3: for the empty series every field is the zero/empty value.
C3_EmptyInputAllZero ==
    (MetricsDone /\ Len(data) = 0) =>
        /\ metrics.totalTransactions = Num(0)
        /\ metrics.avgTransactions = Num(0)
        /\ metrics.peakDay = [date |-> "", value |-> Num(0)]
        /\ metrics.revenueTotal = Num(0)
        /\ metrics.trend = Num(0)
        /\ metrics.successRate = Num(0)
        /\ metrics.growthRate = Num(0)

C3_Witness == MetricsDone /\ Len(data) = 0

\* C4: for a non-empty series whose first half (positions 1..floor(n/2), empty
\* for a single record) has mean 0, trend is 0 and never NaN or infinite.
C4_TrendZeroOnZeroFirstHalf ==
    (MetricsDone /\ Len(data) > 0 /\ TotalsBetween(data, 1, Len(data) \div 2) = 0) =>
        metrics.trend = Num(0)

\* C5: growthRate is 0 when the window preceding the last 7 records is empty
\* (7 or fewer records) or has mean 0.
C5_GrowthZeroOnEmptyOrZeroWindow ==
    (/\ MetricsDone
     /\ Len(data) > 0
     /\ \/ Len(data) <= 7
        \/ TotalsBetween(data, Max(1, Len(data) - 13), Len(data) - 7) = 0) =>
        metrics.growthRate = Num(0)

\* more than 7 records, an all-zero preceding window and a non-zero last week
C5_Witness ==
    /\ MetricsDone
    /\ Len(data) > 7
    /\ TotalsBetween(data, Max(1, Len(data) - 13), Len(data) - 7) = 0
    /\ TotalsBetween(data, Len(data) - 6, Len(data)) > 0
    /\ metrics.growthRate = Num(0)

\* C6: for n >= 2 records with a non-zero first-half mean, trend is
\* (second-half mean - first-half mean) / first-half mean * 100 with the split
\* at floor(n/2), rounded to one decimal; totals 10,20,30,40 give 133.3.
C6_TrendFormula ==
    /\ (MetricsDone /\ Len(data) >= 2 /\ TotalsBetween(data, 1, Len(data) \div 2) # 0) =>
          LET n1 == Len(data) \div 2
              n2 == Len(data) - n1
              s1 == TotalsBetween(data, 1, n1)
              s2 == TotalsBetween(data, n1 + 1, Len(data))
          IN metrics.trend = Rat(RoundHalfUp(1000 * (s2 * n1 - s1 * n2), s1 * n2), 10)
    /\ (MetricsDone /\ Len(data) = 4 /\ \A i \in 1..4 : data[i].total = ScenarioTotals[i]) =>
          metrics.trend = Rat(1333, 10)

C6_Witness ==
    /\ MetricsDone
    /\ Len(data) = 4
    /\ \A i \in 1..4 : data[i].total = ScenarioTotals[i]
    /\ metrics.trend = Rat(1333, 10)

----------------------------------------------------------------------------
(* Properties of calculateServiceStats and generateRevenueInsights *)

StatsDone == rpc \in {"stats", "done"}
InsightsDone == rpc = "done"

\* the entry of the list for a category
EntryOf(services, key) ==
    CHOOSE e \in {services[x] : x \in 1..Len(services)} : e.name = serviceMeta[key].name

\* sum of the numerators of integer-valued percentages
RECURSIVE PercentageSum(_)
PercentageSum(services) ==
    IF Len(services) = 0 THEN 0 ELSE Head(services).percentage.n + PercentageSum(Tail(services))

\* C8: for every non-empty revenue series the four integer percentages sum
\* to 100 within rounding tolerance (at most 2 away from 100).
C8_PercentagesSumTo100 ==
    (StatsDone /\ Len(revenueData) > 0) =>
        /\ \A x \in 1..Len(serviceRevenues) :
              /\ IsFinite(serviceRevenues[x].percentage)
              /\ serviceRevenues[x].percentage.d = 1
        /\ Abs(PercentageSum(serviceRevenues) - 100) <= 2

\* the series of the scenario: A has 10,10,10 and B has 5,5,20
IsScenario(d, A, B) ==
    /\ Len(d) = 3
    /\ \A i \in 1..3 : d[i][A] = ScenarioA[i] /\ d[i][B] = ScenarioB[i]

\* C9 as stated: A gets trend 0, B gets trend 300 and the fastest-growing
\* insight names B.
C9_ScenarioTrendsAsStated ==
    \A A, B \in KeySet :
        (InsightsDone /\ A # B /\ IsScenario(revenueData, A, B)) =>
            /\ EntryOf(serviceRevenues, A).trend = Num(0)
            /\ EntryOf(serviceRevenues, B).trend = Num(300)
            /\ insights[2].name = serviceMeta[B].name

\* C9 amended: in the three-record scenario the first-3 and last-3 windows are
\* the same records, so A and B both get trend 0 and the fastest-growing
\* insight names the first entry of the value-sorted list.
C9_ScenarioTrends ==
    \A A, B \in KeySet :
        (InsightsDone /\ A # B /\ IsScenario(revenueData, A, B)) =>
            /\ EntryOf(serviceRevenues, A).trend = Num(0)
            /\ EntryOf(serviceRevenues, B).trend = Num(0)
            /\ insights[2].name = serviceRevenues[1].name

\* the scenario with B before A in category order and no larger category:
\* the insight names B's entry only because it is first in the list
C9_Witness ==
    /\ InsightsDone
    /\ IsScenario(revenueData, "water", "electricity")
    /\ SumKey(revenueData, "mobileMoney") = 0
    /\ SumKey(revenueData, "airtime") = 0
    /\ insights[2].name = serviceMeta["electricity"].name
    /\ insights[2].stat = Num(0)

\* C10: for a non-empty series whose grand total is 0 every category
\* percentage and the peak-window share is 0, never NaN or infinite.
C10_ZeroTotalGivesZeroPercent ==
    (InsightsDone /\ Len(revenueData) > 0 /\ TotalsBetween(revenueData, 1, Len(revenueData)) = 0) =>
        /\ \A x \in 1..Len(serviceRevenues) : serviceRevenues[x].percentage = Num(0)
        /\ insights[3].stat = Num(0)

\* sum of the values of a category over the records at positions lo..hi
RECURSIVE KeyTotalBetween(_, _, _, _)
KeyTotalBetween(d, key, lo, hi) ==
    IF lo > hi THEN 0 ELSE d[lo][key] + KeyTotalBetween(d, key, lo + 1, hi)

\* C11: for a non-empty series calculateServiceStats returns exactly one entry
\* per category, each entry's summed value >= the next entry's, and the
\* dominant-category insight names the entry with the largest summed value.
C11_OneEntryPerCategorySortedByValue ==
    /\ (StatsDone /\ Len(revenueData) > 0) =>
          /\ Len(serviceRevenues) = Len(ServiceKeys)
          /\ \A key \in KeySet :
                \E x \in 1..Len(serviceRevenues) :
                    /\ serviceRevenues[x].name = serviceMeta[key].name
                    /\ serviceRevenues[x].value = KeyTotalBetween(revenueData, key, 1, Len(revenueData))
                    /\ \A y \in 1..Len(serviceRevenues) :
                          serviceRevenues[y].name = serviceMeta[key].name => y = x
          /\ \A x \in 1..(Len(serviceRevenues) - 1) :
                serviceRevenues[x].value >= serviceRevenues[x + 1].value
    /\ (InsightsDone /\ Len(revenueData) > 0) =>
          \E key \in KeySet :
              /\ insights[1].name = serviceMeta[key].name
              /\ \A other \in KeySet :
                    KeyTotalBetween(revenueData, other, 1, Len(revenueData))
                        <= KeyTotalBetween(revenueData, key, 1, Len(revenueData))

\* the largest category is strictly larger than the next and is not the first
\* category of the metadata
C11_Witness ==
    /\ InsightsDone
    /\ Len(serviceRevenues) = Len(ServiceKeys)
    /\ serviceRevenues[1].value > serviceRevenues[2].value
    /\ serviceRevenues[1].name # serviceMeta[ServiceKeys[1]].name
    /\ insights[1].name = serviceRevenues[1].name

\* the fastest-growing insight names an entry whose trend no entry exceeds
FastestGrowingIsMaxTrend ==
    (InsightsDone /\ Len(revenueData) > 0) =>
        \E x \in 1..Len(serviceRevenues) :
            /\ insights[2].name = serviceRevenues[x].name
            /\ insights[2].stat = serviceRevenues[x].trend
            /\ \A y \in 1..Len(serviceRevenues) :
                  ~JsGt(serviceRevenues[y].trend, serviceRevenues[x].trend)

\* C12: the fastest-growing insight names a category whose trend is >= every
\* other category's trend, whatever the value order is, and computing it
\* leaves the value-sorted list in the same order.
C12_FastestGrowingIndependentOfValueOrder ==
    [][rpc = "stats" => (serviceRevenues' = serviceRevenues /\ FastestGrowingIsMaxTrend')]_vars

\* the fastest-growing category is not the dominant one and grows strictly faster
C12_Witness ==
    /\ InsightsDone
    /\ Len(serviceRevenues) = Len(ServiceKeys)
    /\ insights[2].name # insights[1].name
    /\ \E x \in 2..Len(serviceRevenues) :
          /\ insights[2].name = serviceRevenues[x].name
          /\ JsGt(serviceRevenues[x].trend, serviceRevenues[1].trend)
          /\ serviceRevenues[1].value > serviceRevenues[x].value

----------------------------------------------------------------------------
(* Properties of the heatmap view *)

\* the effect on [heatmapData] has run for the fetched cell list
HeatmapSettled == hpc = "settled" /\ hResult.kind = "payload"

\* positions of the cells of a day / of an hour bucket in the held list
CellsOfDay(day) == {x \in 1..Len(heatmapData) : heatmapData[x].day = day}
CellsOfHour(hour) == {x \in 1..Len(heatmapData) : heatmapData[x].hour = hour}

\* sum of the values of the cells at the positions S
RECURSIVE ValueSum(_)
ValueSum(S) ==
    IF S = {} THEN 0
    ELSE LET x == CHOOSE y \in S : TRUE IN heatmapData[x].value + ValueSum(S \ {x})

\* C13: calculateDayStats returns one entry per fixed day in the fixed order;
\* total is the sum of the day's cell values, peak and peakHour are the value
\* and hour of the first maximum-value cell of the day in list order, and a
\* day without cells gives total 0, peak 0 and peakHour ""; Monday with 100
\* at "08-10" and 50 at "10-12" gives total 150, peak 100, peakHour "08-10".
C13_DayStats ==
    (HeatmapSettled /\ Len(heatmapData) > 0) =>
        /\ Len(dayStats) = 7
        /\ \A x \in 1..7 :
              LET S == CellsOfDay(days[x])
              IN /\ dayStats[x].day = days[x]
                 /\ dayStats[x].total = ValueSum(S)
                 /\ S = {} => dayStats[x].peak = 0 /\ dayStats[x].peakHour = ""
                 /\ S # {} =>
                       \E p \in S :
                           /\ \A y \in S : heatmapData[y].value <= heatmapData[p].value
                           /\ \A y \in S : heatmapData[y].value = heatmapData[p].value => p <= y
                           /\ dayStats[x].peak = heatmapData[p].value
                           /\ dayStats[x].peakHour = heatmapData[p].hour
        /\ heatmapData = ScenarioCells =>
              /\ dayStats[1].total = 150
              /\ dayStats[1].peak = 100
              /\ dayStats[1].peakHour = "08-10"

\* a day with two cells of the same maximal value, and a day without cells
C13_Witness ==
    /\ HeatmapSettled
    /\ Len(heatmapData) = 3
    /\ heatmapData[1].day = "Monday" /\ heatmapData[1].value = 0
    /\ heatmapData[2].day = "Monday" /\ heatmapData[2].value = 1
    /\ heatmapData[3].day = "Monday" /\ heatmapData[3].value = 1
    /\ dayStats[1].total = 2
    /\ dayStats[1].peak = 1
    /\ dayStats[1].peakHour = heatmapData[2].hour
    /\ dayStats[7].peakHour = ""

\* C14: for every non-empty cell list generateHourlyData returns exactly 12
\* records, one per fixed hour bucket in the fixed order, each a defined
\* record carrying the bucket's hour label and, for every (day, hour) pair
\* with a cell, the cell's value under the lowercase day name.
C14_TwelveDefinedHourlyRecords ==
    (HeatmapSettled /\ Len(heatmapData) > 0) =>
        /\ Len(hourlyData) = 12
        /\ \A x \in 1..12 :
              /\ hourlyData[x] # Undefined
              /\ hourlyData[x].hour = hours[x]
              /\ \A y \in CellsOfHour(hours[x]) :
                    /\ ToLowerCase[heatmapData[y].day] \in DOMAIN hourlyData[x]
                    /\ hourlyData[x][ToLowerCase[heatmapData[y].day]] = heatmapData[y].value

\* summed value of an hour bucket / of a day over the held cells
HourTotal(hour) == ValueSum(CellsOfHour(hour))
DayTotal(day) == ValueSum(CellsOfDay(day))

\* hour buckets and days that have a cell in the held list
HoursPresent == {x \in 1..Len(hours) : CellsOfHour(hours[x]) # {}}
DaysPresent == {x \in 1..Len(days) : CellsOfDay(days[x]) # {}}

\* C15: the busiest hour bucket, the busiest day and the quietest hour bucket
\* named by generateDynamicInsights (and the hour buckets named by
\* generateDynamicRecommendations) have a maximal, maximal and minimal summed
\* value, and among tied candidates it is the first in the fixed day/hour
\* enumeration order.
C15_ExtremesFirstInEnumerationOrder ==
    (HeatmapSettled /\ Len(heatmapData) > 0) =>
        /\ \E p \in HoursPresent :
              /\ \A y \in HoursPresent : HourTotal(hours[y]) <= HourTotal(hours[p])
              /\ \A y \in HoursPresent : HourTotal(hours[y]) = HourTotal(hours[p]) => p <= y
              /\ hInsights[1].subject = hours[p]
              /\ hRecommendations[1].subject = hours[p]
              /\ hRecommendations[3].subject = hours[p]
        /\ \E p \in DaysPresent :
              /\ \A y \in DaysPresent : DayTotal(days[y]) <= DayTotal(days[p])
              /\ \A y \in DaysPresent : DayTotal(days[y]) = DayTotal(days[p]) => p <= y
              /\ hInsights[2].subject = days[p]
              /\ hInsights[2].stat = DayTotal(days[p])
        /\ \E p \in HoursPresent :
              /\ \A y \in HoursPresent : HourTotal(hours[y]) >= HourTotal(hours[p])
              /\ \A y \in HoursPresent : HourTotal(hours[y]) = HourTotal(hours[p]) => p <= y
              /\ hInsights[3].subject = hours[p]
              /\ hRecommendations[2].subject = hours[p]

\* C16: for the empty cell list generateDynamicInsights and
\* generateDynamicRecommendations return empty lists and the view's dayStats
\* and hourlyData stay empty lists; the pass completes.
C16_EmptyCellListGivesEmptyLists ==
    (HeatmapSettled /\ Len(heatmapData) = 0) =>
        /\ Len(hInsights) = 0
        /\ Len(hRecommendations) = 0
        /\ Len(dayStats) = 0
        /\ Len(hourlyData) = 0

\* the endpoint answered with the empty list and the view went through its
\* render and its effect
C16_Witness ==
    /\ HeatmapSettled
    /\ hResult = ApiPayload(<<>>)
    /\ heatmapData = <<>>
    /\ hLoading = FALSE
    /\ dayStats = <<>>

----------------------------------------------------------------------------
(* Properties of the fetching views *)

\* C17: when fetches of a view overlap, every response is applied when it
\* arrives, without a generation guard: what the view holds is the payload
\* of the request that settled last, also when that is the response to an
\* earlier request whose parameters are no longer the selected ones.
C17_LastResolvedPayloadWins ==
    lastDone.kind = "payload" =>
        /\ mounted = "volume" =>
              /\ chartData = ApiPayload(lastDone.rows)
              /\ summaryMetrics = calculateMetrics(lastDone.rows)
        /\ mounted = "revenue" => revenueData = ProcessRevenue(lastDone.rows)
        /\ mounted \in {"gauge", "none"} => gMetrics = lastDone.rows.metrics

\* both requests of the volume view have settled; the first one settled
\* last, over the different payload of the second one, and its arguments
\* are not the selected ones
C17_Witness ==
    /\ mounted = "volume"
    /\ fetches = 2
    /\ inflight = {}
    /\ lastDone.kind = "payload"
    /\ lastDone.id = 1
    /\ lastDone.params # CurrentParams
    /\ lastDone.prev.chartData.rows # lastDone.rows
    /\ Len(lastDone.prev.chartData.rows) > 0
    /\ chartData.rows = lastDone.rows

\* C18: in the gauge, once live is off or the view is unmounted no interval
\* is left running, and no interval-driven fetch is made while live is off
\* or the view is unmounted.
C18_NoTimerFetchWhenNotLive ==
    [][/\ (~isLive' \/ mounted' # "gauge") => timers' = {}
       /\ (~isLive \/ mounted # "gauge") =>
             \A r \in inflight' \ inflight : r.origin # "timer"]_vars

\* live was toggled off after the interval had fired: its request is still
\* in flight and no interval is left
C18_Witness ==
    /\ mounted = "gauge"
    /\ ~isLive
    /\ timers = {}
    /\ \E r \in inflight : r.origin = "timer"

\* C19: when a request of the volume view resolves to null the handler
\* raises no exception and the view ends with the empty series and the
\* all-zero summary metrics.
C19_NullGivesEmptyInputState ==
    (mounted = "volume" /\ lastDone.kind = "null") =>
        /\ ~lastDone.threw
        /\ ~crashed
        /\ chartData = ApiPayload(<<>>)
        /\ summaryMetrics = EmptyMetrics

\* a request has just settled with a rejection
RejectHandled == lastDone' # lastDone /\ lastDone'.kind = "reject"

\* C20 as stated: when the api call rejects, the aggregation is not invoked
\* and the view holds exactly what it held before the request was issued.
C20_RejectRestoresStateAtIssue ==
    [][RejectHandled => (~lastDone'.aggregated /\ HeldState' = lastDone'.before)]_vars

\* C20: when the api call rejects, the aggregation is not invoked and the
\* view holds exactly what it held just before the rejection arrived.
C20_RejectLeavesHeldState ==
    [][RejectHandled => (~lastDone'.aggregated /\ HeldState' = HeldState)]_vars

\* the gauge holds fetched metrics after a rejection, and they are not the
\* ones it held when the rejected request was issued
C20_Witness ==
    /\ mounted = "gauge"
    /\ lastDone.kind = "reject"
    /\ gMetrics # InitialGaugeMetrics
    /\ gMetrics = lastDone.prev.metrics
    /\ lastDone.before # lastDone.prev

----------------------------------------------------------------------------
(* Properties of api.request *)

\* C21: api.request settles in one of three ways: it throws when the HTTP
\* response is not ok, returns the envelope's payload when the response is
\* ok and success is true, and returns null when the response is ok and
\* success is false; it never returns the envelope.
C21_RequestOutcomes ==
    outcome.kind # "pending" =>
        /\ outcome.kind \in {"reject", "payload", "null"}
        /\ (http.fetch = "resolved" /\ ~http.ok) => outcome = ApiReject
        /\ (http.ok /\ http.parses /\ http.success = "true") =>
              outcome = ApiPayload(http.payload)
        /\ (http.ok /\ http.parses /\ http.success = "false") => outcome = ApiNull

\* an ok response with success false and a payload in the envelope has
\* been answered with null
C21_Witness ==
    /\ http.ok /\ http.parses
    /\ http.success = "false"
    /\ Len(http.payload) > 0
    /\ outcome = ApiNull

----------------------------------------------------------------------------
(* Further properties of the fetching views *)

\* a request has just settled with a payload
PayloadHandled == lastDone' # lastDone /\ lastDone'.kind = "payload"

\* C22: after a fetch of the volume or revenue view resolves with a payload
\* the held series has exactly the records of that payload and the derived
\* metrics are those of that payload: nothing held before is kept or merged.
C22_PayloadReplacesHeldState ==
    [][PayloadHandled =>
        LET rows == lastDone'.rows
        IN /\ mounted = "volume" =>
                /\ chartData'.kind = "payload"
                /\ Len(chartData'.rows) = Len(rows)
                /\ \A i \in 1..Len(rows) : chartData'.rows[i] = rows[i]
                /\ summaryMetrics' = calculateMetrics(rows)
           /\ mounted = "revenue" =>
                /\ Len(revenueData') = Len(rows)
                /\ \A i \in 1..Len(rows) :
                      /\ revenueData'[i].date = rows[i].date
                      /\ revenueData'[i].total = rows[i].total
                      /\ \A key \in {"electricity", "mobileMoney", "airtime", "water"} :
                            revenueData'[i][key] = rows[i][key]
                /\ serviceRevenues' = calculateServiceStats(ProcessRevenue(rows))
                /\ insights' = generateRevenueInsights(ProcessRevenue(rows),
                                     calculateServiceStats(ProcessRevenue(rows)))]_vars

\* the volume view held a longer series before the payload that settled
\* last, and holds exactly that payload now
C22_Witness ==
    /\ mounted = "volume"
    /\ lastDone.kind = "payload"
    /\ Len(lastDone.rows) > 0
    /\ Len(lastDone.prev.chartData.rows) > Len(lastDone.rows)
    /\ chartData = ApiPayload(lastDone.rows)

\* C23: in the volume view the distribution share of every service and the
\* average-revenue figure of the render are 0, not NaN, whenever the held
\* series is empty or the total transaction count is 0.
C23_RenderFiguresZeroOnEmptyOrZeroTotal ==
    (/\ mounted = "volume"
     /\ chartData.kind = "payload"
     /\ (Len(chartData.rows) = 0 \/ summaryMetrics.totalTransactions = Num(0))) =>
        /\ \A x \in 1..Len(DistributionServices) :
              DistributionShare(chartData.rows, summaryMetrics, DistributionServices[x]) = Num(0)
        /\ AverageRevenue(chartData.rows, summaryMetrics) = Num(0)

\* C25: in the volume view, after any sequence of parameter changes and
\* settled fetches (payload, null or rejection, in any order) the held
\* summary metrics are calculateMetrics of the held series.
C25_MetricsAreCalculateMetricsOfSeries ==
    mounted = "volume" =>
        /\ chartData.kind = "payload"
        /\ summaryMetrics = calculateMetrics(chartData.rows)

\* C26: in the revenue view loading is true in every state in which at
\* least one fetch is still in flight, also when fetches overlap.
C26_LoadingWhileFetchInFlight ==
    (mounted = "revenue" /\ inflight # {}) => loading

----------------------------------------------------------------------------
(* Further properties of the heatmap view *)

\* positions of the Saturday and Sunday cells of the held list
WeekendCells == CellsOfDay("Saturday") \cup CellsOfDay("Sunday")

\* C24: generateDynamicInsights reports that weekend volume exceeds weekday
\* averages exactly when (sum of the weekend cells) / 2 is strictly greater
\* than (sum of the other cells) / 5, and reports weekdays as higher
\* otherwise, also when the two averages are equal.
C24_WeekendExceedsIffStrictlyGreater ==
    (HeatmapSettled /\ Len(heatmapData) > 0) =>
        LET weekend == ValueSum(WeekendCells)
            weekday == ValueSum((1..Len(heatmapData)) \ WeekendCells)
        IN /\ hInsights[4].title = "Weekend vs Weekday"
           /\ 5 * weekend > 2 * weekday =>
                 hInsights[4].description = "Weekend volume exceeds weekday averages."
           /\ 5 * weekend <= 2 * weekday =>
                 hInsights[4].description = "Weekdays see higher volume than weekends."

\* both averages are 1 and the weekdays are reported as higher
C24_Witness ==
    /\ HeatmapSettled
    /\ heatmapData = EqualAveragesCells
    /\ hInsights[4].description = "Weekdays see higher volume than weekends."

----------------------------------------------------------------------------
(* Properties of the loading flags *)

\* every fetch issued by the mounted view has settled
AllFetchesSettled ==
    /\ hpc \notin {"idle", "fetching"} \/ mounted = "revenue" \/ demoResult.kind # "unmounted"
    /\ hpc # "fetching"
    /\ inflight = {}
    /\ demoResult.kind # "pending"

\* the loading flag of the mounted view
ViewLoading ==
    IF mounted = "revenue" THEN loading
    ELSE IF demoResult.kind # "unmounted" THEN demoLoading
    ELSE hLoading

\* a fetch of the mounted view settles in this step
FetchSettles == hResult' # hResult \/ lastDone' # lastDone \/ demoResult' # demoResult

\* C27: in the heatmap, revenue and demographics views every fetch that
\* settles, with a payload, with null or by rejecting, sets loading to
\* false, and while every issued fetch has settled loading is false.
C27_LoadingFalseAfterCompletion ==
    /\ [](AllFetchesSettled => ~ViewLoading)
    /\ [][FetchSettles => ~ViewLoading']_vars

\* both fetches of the revenue view have settled, the last one by
\* rejecting, and the overlay is hidden
C27_Witness ==
    /\ mounted = "revenue"
    /\ fetches = 2
    /\ inflight = {}
    /\ lastDone.kind = "reject"
    /\ ~loading

----------------------------------------------------------------------------
(* Further properties of the gauge *)

\* the live flag or the period of the gauge changes in this step
GaugeParamsChange ==
    mounted = "gauge" /\ (isLive' # isLive \/ selectedPeriod' # selectedPeriod)

\* C28: in the gauge at most one polling interval is active, none while
\* live is off, and every toggle of live and every change of the period
\* issues exactly one immediate fetch, for the new period, whether live
\* ends up on or off.
C28_OneTimerOneImmediateFetch ==
    /\ [](mounted = "gauge" =>
            /\ Cardinality(timers) <= 1
            /\ ~isLive => timers = {})
    /\ [][GaugeParamsChange =>
            /\ Cardinality(inflight' \ inflight) = 1
            /\ inflight \subseteq inflight'
            /\ \A r \in inflight' \ inflight :
                  /\ r.origin = "effect"
                  /\ r.params = [selectedPeriod |-> selectedPeriod']]_vars

\* live was turned off and on again: one interval, started by the last
\* effect, and the immediate fetch of that effect in flight
C28_Witness ==
    /\ mounted = "gauge"
    /\ isLive
    /\ fetches = 3
    /\ timers = {[id |-> 3, selectedPeriod |-> selectedPeriod]}
    /\ \E r \in inflight : r.id = 3 /\ r.origin = "effect"

----------------------------------------------------------------------------
(* Further properties of the day statistics *)

\* sum of the totals of the first n day records
RECURSIVE SumOfDayTotals(_, _)
SumOfDayTotals(stats, n) ==
    IF n = 0 THEN 0 ELSE SumOfDayTotals(stats, n - 1) + stats[n].total

\* C29: the totals of the seven day records of calculateDayStats add up to
\* totalSessions, the sum of the values of all cells, for the held cell
\* list and for the day records the view holds once its effect has run.
C29_DayTotalsSumToTotalSessions ==
    /\ SumOfDayTotals(calculateDayStats(heatmapData), 7) = totalSessions(heatmapData)
    /\ HeatmapSettled =>
          SumOfDayTotals(dayStats, Len(dayStats)) = totalSessions(heatmapData)

\* three cells, two on Monday and one on Sunday, all with sessions
C29_Witness ==
    /\ HeatmapSettled
    /\ Len(heatmapData) = 3
    /\ \A x \in 1..3 : heatmapData[x].value > 0
    /\ dayStats[1].total = 2
    /\ dayStats[7].total = 1
    /\ totalSessions(heatmapData) = 3

----------------------------------------------------------------------------
(* Properties of the processing of a fetched revenue series *)

\* g is the percentage change from the total prev to the total cur, to the
\* nearest tenth: ten times g is an integer at most 1/2 away from
\* 1000 * (cur - prev) / prev
IsPercentChangeToOneDecimal(g, prev, cur) ==
    /\ g.k = "fin"
    /\ (10 * g.n) % g.d = 0
    /\ LET tenths == (10 * g.n) \div g.d
       IN 2 * Abs(1000 * (cur - prev) - tenths * prev) <= prev

\* the growth fields of the held series are those of the last payload
GrowthAsDescribed ==
    (mounted = "revenue" /\ lastDone.kind = "payload") =>
        \A i \in 1..Len(lastDone.rows) :
            LET rows == lastDone.rows
                growth == revenueData[i].growth
            IN /\ i = 1 => growth = Num(0)
               /\ (i > 1 /\ rows[i - 1].total = 0) => growth = Num(0)
               /\ (i > 1 /\ rows[i - 1].total > 0) =>
                     IsPercentChangeToOneDecimal(growth, rows[i - 1].total, rows[i].total)

\* isPeak marks the records dated the 15th to the 20th
PeakAsDescribed ==
    (mounted = "revenue" /\ lastDone.kind = "payload") =>
        \A i \in 1..Len(lastDone.rows) :
            revenueData[i].isPeak = (lastDone.rows[i].date.day \in 15..20)

\* C30: in the series the revenue view holds after a payload, the growth
\* of the first record is 0, the growth of a later record is the percentage
\* change from the preceding total to one decimal place, 0 when that total
\* is 0, and isPeak is true exactly for the records whose day of month is
\* between 15 and 20.
C30_GrowthAndPeakFlags == GrowthAsDescribed /\ PeakAsDescribed

====
